---- MODULE Spec2Model ----
(***************************************************************************)
(* DevPad: the submission lifecycle of routes.py over the tables of        *)
(* models.py.  The committed database is the state: the code_submissions   *)
(* table, the problem_assignments table, and one CodingProblem with its    *)
(* private TestCase.  A request handler is atomic between two commits:     *)
(* view_problem commits twice (routes.py:182 and routes.py:231), so it is  *)
(* two steps, and other requests can run between them.                     *)
(***************************************************************************)
EXTENDS Integers, Sequences, FiniteSets, TLC

\* ---- bounds of the model ------------------------------------------------
MaxSubs == 2              \* rows the code_submissions table may hold
MaxScore == 1             \* the executor reports scores 0..MaxScore
NumPrivate == 1           \* private test cases of the problem
MaxDeliveries == 3        \* callbacks the delivery history may hold
MaxRaceScore == 2         \* scores 0..MaxRaceScore of the concurrent callbacks

\* ---- users (models.py User, UserRole) ------------------------------------
Students == {1, 2}        \* users with role STUDENT
Creator == 3              \* the instructor who created the problem
OtherInstructor == 4      \* an instructor who did not
Users == Students \cup {Creator, OtherInstructor}

\* ---- encodings of Python / JSON values -----------------------------------
None == 0 - 1             \* None / JSON null in an integer position
Missing == 0 - 2          \* the key is absent from the JSON body
NoneStr == "<None>"       \* None / JSON null in a string position
MissingStr == "<missing>" \* the key is absent (string position)
NoHeader == "<no header>" \* request.headers.get('X-Api-Key') is None

DefaultTotalScore == 100  \* CodingProblem.total_score default (models.py:140)
CustomScore == 100        \* score an instructor gives the private test case
Diagnostic == "Failed to start execution: e"
Output == "output"        \* the executor's execution output
EXECUTION_API_KEY == "key" \* current_app.config['EXECUTION_API_KEY']

Scores == 0 .. MaxScore
CallbackStatuses == {"Passed", "Bogus"}

VARIABLES
    code_submissions,     \* sequence of rows; the index is the row's id
    problem_assignments,  \* user_id -> row, for the assigned students
    coding_problem,       \* the CodingProblem row
    test_case_score,      \* TestCase.score of its private test case
    inflight,             \* ids whose view_problem is between its commits
    lambda_jobs,          \* payloads the executor has been invoked with
    best_seen,            \* history: the highest best_score cached per student
    resp,                 \* the last request and its outcome
    callback_sessions,    \* the session of each callback request in progress
    delivered             \* history: the callbacks delivered, in order

vars == <<code_submissions, problem_assignments, coding_problem,
          test_case_score, inflight, lambda_jobs, best_seen, resp,
          callback_sessions, delivered>>

\* The request log: the handler that answered, its answer, and what the
\* request carried (NoReq where the claims need none of it).
NoReq == [none |-> TRUE]
Response(op, result, req) == [op |-> op, result |-> result, req |-> req]

\* The callback requests that may be in progress at the same time, and the
\* session of one that is not.
Handlers == {1, 2}
Idle == [phase |-> "idle"]

\* ---- models.py -----------------------------------------------------------
\* CodeSubmission(student, problem, language, code, status='Pending') with
\* the column defaults of models.py:237-243.
CodeSubmission(user_id, language) ==
    [user_id |-> user_id, language |-> language, status |-> "Pending",
     score_achieved |-> 0, total_score |-> 0, execution_output |-> NoneStr]

\* ProblemAssignment(student, problem): best_score defaults to 0,
\* best_submission_id is NULL.
ProblemAssignment == [best_score |-> 0, best_submission_id |-> None]

\* User.get_assignment: the row of the primary key (user_id, problem_id),
\* or None; here: whether the row exists.
get_assignment(asg, user_id) == user_id \in DOMAIN asg

Init ==
    /\ code_submissions = <<>>
    /\ problem_assignments = [u \in {} |-> ProblemAssignment]
    /\ coding_problem = [is_open |-> TRUE, scoring_type |-> "EQUAL",
                         total_score |-> DefaultTotalScore]
    /\ test_case_score = 0
    /\ inflight = {}
    /\ lambda_jobs = {}
    /\ best_seen = [u \in Students |-> 0]
    /\ resp = Response("init", "none", NoReq)
    /\ callback_sessions = [h \in Handlers |-> Idle]
    /\ delivered = <<>>

\* ---- routes.py: assign_problem -------------------------------------------
\* Lines 442-452: a ProblemAssignment is added for every selected student
\* that has none, and the row of every student not selected is deleted.
update_assignments(asg, selected) ==
    [u \in selected |-> IF u \in DOMAIN asg THEN asg[u] ELSE ProblemAssignment]

\* Lines 435-457, for the instructor who created the problem.
assign_problem(selected) ==
    /\ UNCHANGED <<callback_sessions, delivered>>
    /\ problem_assignments' = update_assignments(problem_assignments, selected)
    /\ resp' = Response("assign_problem", "updated", NoReq)
    /\ UNCHANGED <<code_submissions, coding_problem, test_case_score,
                   inflight, lambda_jobs, best_seen>>

\* ---- routes.py: edit_problem ---------------------------------------------
\* Lines 350-394, for the instructor who created the problem: the form's
\* fields are written to the problem and its test cases are deleted and
\* created again; a private test case's score is the form's score under
\* CUSTOM scoring and 0 under EQUAL.
edit_problem(is_open, scoring_type) ==
    /\ UNCHANGED <<callback_sessions, delivered>>
    /\ test_case_score' = IF scoring_type = "CUSTOM" THEN CustomScore ELSE 0
    /\ coding_problem' =
          [is_open |-> is_open, scoring_type |-> scoring_type,
           total_score |-> IF scoring_type = "EQUAL"
                           THEN DefaultTotalScore
                           ELSE NumPrivate * CustomScore]
    /\ resp' = Response("edit_problem", "updated", NoReq)
    /\ UNCHANGED <<code_submissions, problem_assignments, inflight,
                   lambda_jobs, best_seen>>

\* ---- routes.py: view_problem ---------------------------------------------
\* SubmissionForm.validate_on_submit(): a POST whose language is one of the
\* RadioField's choices and whose code is not empty.
validate_on_submit(method, language, code_given) ==
    /\ method = "POST"
    /\ language \in {"python"}
    /\ code_given

\* Mutant of view_problem_check: problem.is_open is not looked at.
view_problem_check_open(asg, problem, user, method, language, code_given) ==
    IF ~get_assignment(asg, user) THEN "not_assigned"
    ELSE IF ~validate_on_submit(method, language, code_given) THEN "form"
    ELSE "committed"

\* Lines 160-172, for a logged-in student: the checks in the order the code
\* makes them, and what the request is answered with.
view_problem_check(asg, problem, user, method, language, code_given) ==
    IF ~get_assignment(asg, user) THEN "not_assigned"
    ELSE IF ~validate_on_submit(method, language, code_given) THEN "form"
    ELSE IF ~problem.is_open THEN "closed"
    ELSE "committed"

\* Lines 160-182: the first half of the POST handler, up to the commit that
\* gives the submission its id.
view_problem(user, method, language, code_given) ==
    LET check == view_problem_check(problem_assignments, coding_problem,
                                    user, method, language, code_given)
        sid == Len(code_submissions) + 1
    IN  /\ UNCHANGED <<problem_assignments, coding_problem,
                       test_case_score, lambda_jobs, best_seen>>
        /\ UNCHANGED <<callback_sessions, delivered>>
        /\ IF check = "committed"
           THEN /\ Len(code_submissions) < MaxSubs
                /\ code_submissions' =
                       Append(code_submissions, CodeSubmission(user, language))
                /\ inflight' = inflight \cup {sid}
           ELSE UNCHANGED <<code_submissions, inflight>>
        /\ resp' = Response("view_problem", check,
                            [user |-> user, language |-> language])

\* Lines 186-196: the total score the payload names.
total_possible_score(problem, tc_score) ==
    IF problem.scoring_type = "EQUAL"
    THEN problem.total_score
    ELSE NumPrivate * tc_score

\* Lines 188-194: under EQUAL scoring every private test case object is
\* given total_score / num_private; the objects belong to the session, so
\* the handler's next commit writes them.
score_per_case(problem, tc_score) ==
    IF problem.scoring_type = "EQUAL"
    THEN problem.total_score \div NumPrivate
    ELSE tc_score

\* Mutant of payload: the submission's id is left out.
payload_without_id(sid, problem, tc_score) ==
    [submission_id |-> None,
     total_score |-> total_possible_score(problem, tc_score)]

\* Lines 206-214.
payload(sid, problem, tc_score) ==
    [submission_id |-> sid,
     total_score |-> total_possible_score(problem, tc_score)]

\* Mutant of dispatch_failed: the message is written, the status is not.
dispatch_failed_message_only(sub) ==
    [sub EXCEPT !.execution_output = Diagnostic]

\* Lines 227-231: what the except branch writes to the submission.
dispatch_failed(sub) ==
    [sub EXCEPT !.status = "Error", !.execution_output = Diagnostic]

\* Lines 185-234: the second half of the POST handler.  lambda_client.invoke
\* either takes the payload (invoke_ok) or raises; on a raise the handler
\* commits the Error status, and with it the test case score in its session.
view_problem_dispatch(sid, invoke_ok) ==
    /\ UNCHANGED <<callback_sessions, delivered>>
    /\ sid \in inflight
    /\ inflight' = inflight \ {sid}
    /\ UNCHANGED <<problem_assignments, coding_problem, best_seen>>
    /\ IF invoke_ok
       THEN /\ lambda_jobs' = lambda_jobs \cup
                   {payload(sid, coding_problem, test_case_score)}
            /\ UNCHANGED <<code_submissions, test_case_score>>
            /\ resp' = Response("view_problem", "dispatched", [sid |-> sid])
       ELSE /\ code_submissions' =
                   [code_submissions EXCEPT ![sid] = dispatch_failed(@)]
            /\ test_case_score' = score_per_case(coding_problem, test_case_score)
            /\ UNCHANGED lambda_jobs
            /\ resp' = Response("view_problem", "dispatch_failed", [sid |-> sid])

\* ---- routes.py: view_submission ------------------------------------------
\* Mutant of may_view: the instructor's check is missing.
may_view_any_instructor(user, sub) ==
    ~(user \in Students /\ sub.user_id # user)

\* Lines 263-266 and 552-555: a student sees only their own submissions, an
\* instructor only those of problems they created.
may_view(user, sub) ==
    /\ ~(user \in Students /\ sub.user_id # user)
    /\ ~(user \notin Students /\ user # Creator)

\* Lines 256-268: a read; the page shows the submission's status.
view_submission(user, sid) ==
    /\ UNCHANGED <<callback_sessions, delivered>>
    /\ UNCHANGED <<code_submissions, problem_assignments, coding_problem,
                   test_case_score, inflight, lambda_jobs, best_seen>>
    /\ resp' =
          IF sid \notin DOMAIN code_submissions
          THEN Response("view_submission", "404", NoReq)
          ELSE IF ~may_view(user, code_submissions[sid])
          THEN Response("view_submission", "403", NoReq)
          ELSE Response("view_submission", "200",
                        [sid |-> sid, status |-> code_submissions[sid].status])

\* ---- routes.py: get_submission_status ------------------------------------
\* submission.<name>: the value of the attribute, for the attributes the
\* CodeSubmission model has (models.py:228-250); any other name raises an
\* AttributeError.
hasattr(sub, name) == name \in DOMAIN sub

\* Lines 548-562: get_or_404, the two security checks, and the JSON answer
\* built from submission.status, submission.execution_output and
\* submission.score_a_chieved; an exception building it is a 500.  Nothing
\* is written.
get_submission_status(user, sid) ==
    /\ UNCHANGED <<callback_sessions, delivered>>
    /\ UNCHANGED <<code_submissions, problem_assignments, coding_problem,
                   test_case_score, inflight, lambda_jobs, best_seen>>
    /\ resp' =
          IF sid \notin DOMAIN code_submissions
          THEN Response("get_submission_status", "404", NoReq)
          ELSE IF ~may_view(user, code_submissions[sid])
          THEN Response("get_submission_status", "403",
                        [user |-> user, sid |-> sid])
          ELSE IF \E name \in {"status", "execution_output", "score_a_chieved"} :
                     ~hasattr(code_submissions[sid], name)
          THEN Response("get_submission_status", "500",
                        [user |-> user, sid |-> sid])
          ELSE Response("get_submission_status", "200",
                        [user |-> user, sid |-> sid,
                         status |-> code_submissions[sid].status,
                         score |-> code_submissions[sid]["score_a_chieved"]])

\* ---- routes.py: submission_callback --------------------------------------
\* Mutant of get_user_from_header: any key that is present is accepted.
get_user_from_header_any(sent_key, configured) ==
    ~(sent_key = NoHeader \/ sent_key = "")

\* Lines 120-128: the X-Api-Key header must be present, not empty, and equal
\* to the configured key.
get_user_from_header(sent_key, configured) ==
    IF sent_key = NoHeader \/ sent_key = ""
    THEN FALSE
    ELSE sent_key = configured

\* The handler's SQLAlchemy session: the rows as the handler has written
\* them so far, and whether an exception has been raised.
Session(subs, asg) == [subs |-> subs, asg |-> asg, raised |-> FALSE]

\* submission.<column> = data['<key>'] (lines 520-523): a KeyError when the
\* key is absent, else the attribute is set in the session.
setattr(sess, sid, column, value, absent) ==
    IF sess.raised THEN sess
    ELSE IF value = absent THEN [sess EXCEPT !.raised = TRUE]
    ELSE [sess EXCEPT !.subs[sid][column] = value]

\* Mutant of update_best: the best score is replaced when the submission's
\* score is at least the cached one.
update_best_ge(sess, sid) ==
    LET sub == sess.subs[sid]
        user == sub.user_id
    IN  IF sess.raised THEN sess
        ELSE IF ~get_assignment(sess.asg, user) THEN sess
        ELSE IF sub.score_achieved = None THEN [sess EXCEPT !.raised = TRUE]
        ELSE IF sub.score_achieved >= sess.asg[user].best_score
        THEN [sess EXCEPT !.asg[user] =
                 [best_score |-> sub.score_achieved, best_submission_id |-> sid]]
        ELSE sess

\* Mutant of update_best: the best score is replaced by every score.
update_best_always(sess, sid) ==
    LET sub == sess.subs[sid]
        user == sub.user_id
    IN  IF sess.raised THEN sess
        ELSE IF ~get_assignment(sess.asg, user) THEN sess
        ELSE IF sub.score_achieved = None THEN [sess EXCEPT !.raised = TRUE]
        ELSE [sess EXCEPT !.asg[user] =
                 [best_score |-> sub.score_achieved, best_submission_id |-> sid]]

\* Mutant of update_best: a submission without an assignment row raises.
update_best_requires_row(sess, sid) ==
    LET sub == sess.subs[sid]
        user == sub.user_id
    IN  IF sess.raised THEN sess
        ELSE IF ~get_assignment(sess.asg, user) THEN [sess EXCEPT !.raised = TRUE]
        ELSE IF sub.score_achieved = None THEN [sess EXCEPT !.raised = TRUE]
        ELSE IF sub.score_achieved > sess.asg[user].best_score
        THEN [sess EXCEPT !.asg[user] =
                 [best_score |-> sub.score_achieved, best_submission_id |-> sid]]
        ELSE sess

\* Mutant of update_best: the reported score is added to the best score.
update_best_adds(sess, sid) ==
    LET sub == sess.subs[sid]
        user == sub.user_id
    IN  IF sess.raised THEN sess
        ELSE IF ~get_assignment(sess.asg, user) THEN sess
        ELSE IF sub.score_achieved = None THEN [sess EXCEPT !.raised = TRUE]
        ELSE IF sub.score_achieved > 0
        THEN [sess EXCEPT !.asg[user] =
                 [best_score |-> sess.asg[user].best_score + sub.score_achieved,
                  best_submission_id |-> sid]]
        ELSE sess

\* Lines 525-531: the assignment of the submission's (student, problem) is
\* looked up; its best score is raised when the submission's score exceeds
\* it (comparing None with an integer is a TypeError); without a row only an
\* error is logged.
update_best(sess, sid) ==
    LET sub == sess.subs[sid]
        user == sub.user_id
    IN  IF sess.raised THEN sess
        ELSE IF ~get_assignment(sess.asg, user) THEN sess
        ELSE IF sub.score_achieved = None THEN [sess EXCEPT !.raised = TRUE]
        ELSE IF sub.score_achieved > sess.asg[user].best_score
        THEN [sess EXCEPT !.asg[user] =
                 [best_score |-> sub.score_achieved, best_submission_id |-> sid]]
        ELSE sess

\* Mutant of rollback: what the session had written is kept.
rollback_keeps_session(subs, asg, sess) ==
    [subs |-> sess.subs, asg |-> sess.asg, result |-> "500"]

\* db.session.rollback() (line 538): the database stays as committed.
rollback(subs, asg, sess) ==
    [subs |-> subs, asg |-> asg, result |-> "500"]

\* db.session.commit() (line 533): the flush fails on a NULL status
\* (models.py:237, nullable=False) or when the storage fails.
commit(subs, asg, sess, sid, commit_fails) ==
    IF sess.raised \/ commit_fails \/ sess.subs[sid].status = NoneStr
    THEN rollback(subs, asg, sess)
    ELSE [subs |-> sess.subs, asg |-> sess.asg, result |-> "200"]

\* Mutant of not_found: the check of line 516 is missing, so the first
\* attribute write on None raises and the except branch answers 500.
not_found_unchecked(subs, asg) ==
    [subs |-> subs, asg |-> asg, result |-> "500"]

\* Lines 516-518: no row has the id; a warning is logged and 404 returned.
not_found(subs, asg) ==
    [subs |-> subs, asg |-> asg, result |-> "404"]

\* Lines 520-531: the writes the handler makes in its session, from the rows
\* it has read.
callback_writes(s0, data) ==
    LET sid == data.submission_id
        s1 == setattr(s0, sid, "status", data.status, MissingStr)
        s2 == setattr(s1, sid, "score_achieved", data.score_achieved, Missing)
        s3 == setattr(s2, sid, "total_score", data.total_score, Missing)
        s4 == setattr(s3, sid, "execution_output", data.output, MissingStr)
    IN  update_best(s4, sid)

\* Lines 512-540: the try block and its except branch.
callback_body(subs, asg, data, commit_fails) ==
    IF data.submission_id = Missing
    THEN rollback(subs, asg, Session(subs, asg))
    ELSE IF data.submission_id \notin DOMAIN subs
    THEN not_found(subs, asg)
    ELSE commit(subs, asg, callback_writes(Session(subs, asg), data),
                data.submission_id, commit_fails)

\* History: the highest best_score each student's assignment has held.
highest(seen, asg) ==
    [u \in Students |->
        IF u \in DOMAIN asg /\ asg[u].best_score > seen[u]
        THEN asg[u].best_score
        ELSE seen[u]]

\* What the request log keeps of a callback's body: all of it when the
\* callback was applied, else the submission id it named.
logged(data, result) ==
    IF result = "200" THEN data ELSE [submission_id |-> data.submission_id]

\* Lines 502-540: the request, handled between two commits of other
\* requests.
handle_callback(sent_key, data, commit_fails) ==
    /\ UNCHANGED <<coding_problem, test_case_score, inflight, lambda_jobs>>
    /\ IF ~get_user_from_header(sent_key, EXECUTION_API_KEY)
       THEN /\ resp' = Response("submission_callback", "403",
                                 [key |-> sent_key, body |-> NoReq])
            /\ UNCHANGED <<code_submissions, problem_assignments, best_seen>>
       ELSE LET r == callback_body(code_submissions, problem_assignments,
                                   data, commit_fails)
            IN  /\ code_submissions' = r.subs
                /\ problem_assignments' = r.asg
                /\ best_seen' = highest(best_seen, r.asg)
                /\ resp' = Response("submission_callback", r.result,
                                     [key |-> sent_key,
                                      body |-> logged(data, r.result)])

\* Lines 502-540.
submission_callback(sent_key, data, commit_fails) ==
    /\ handle_callback(sent_key, data, commit_fails)
    /\ UNCHANGED <<callback_sessions, delivered>>

\* ---- the requests the model sends ----------------------------------------
BadKeys == {NoHeader, "", "wrong"}

\* A body the executor's contract describes (spec section 6), for any id.
WellFormed ==
    [submission_id : 1 .. (MaxSubs + 1), status : CallbackStatuses,
     score_achieved : Scores, total_score : {DefaultTotalScore},
     output : {Output}]

\* Bodies with one defect: a key left out, or null where a value is needed.
Malformed ==
    LET b == [submission_id |-> 1, status |-> "Passed",
              score_achieved |-> MaxScore, total_score |-> DefaultTotalScore,
              output |-> Output]
    IN  {[b EXCEPT !.submission_id = Missing],
         [b EXCEPT !.status = MissingStr],
         [b EXCEPT !.status = NoneStr],
         [b EXCEPT !.score_achieved = Missing],
         [b EXCEPT !.total_score = Missing],
         [b EXCEPT !.output = MissingStr]}

CallbackData == WellFormed \cup Malformed

\* The bodies sent while the storage refuses the commit.
CommitFailData == {d \in WellFormed : d.status = "Passed" /\ d.score_achieved = MaxScore}

\* The bodies sent with a key that is not the configured one.
RejectedData ==
    {d \in CommitFailData : d.submission_id = 1}
        \cup {d \in Malformed : d.status = MissingStr}

\* view_problem requests of student 1: a valid POST, a GET, a language the
\* form does not offer, and an empty code field.  Student 2 is assigned and
\* unassigned but submits nothing.
ViewProblemRequests ==
    {<<1, "POST", "python", TRUE>>, <<1, "GET", "python", TRUE>>,
     <<1, "POST", "java", TRUE>>, <<1, "POST", "python", FALSE>>}

Next ==
    \/ \E sel \in SUBSET Students : assign_problem(sel)
    \/ \E o \in BOOLEAN, t \in {"EQUAL", "CUSTOM"} : edit_problem(o, t)
    \/ \E r \in ViewProblemRequests : view_problem(r[1], r[2], r[3], r[4])
    \/ \E sid \in 1 .. MaxSubs, ok \in BOOLEAN :
          view_problem_dispatch(sid, ok)
    \/ \E u \in Users, sid \in 1 .. MaxSubs : view_submission(u, sid)
    \/ \E u \in Users, sid \in 1 .. MaxSubs : get_submission_status(u, sid)
    \/ \E k \in BadKeys, d \in RejectedData : submission_callback(k, d, FALSE)
    \/ \E d \in CallbackData : submission_callback(EXECUTION_API_KEY, d, FALSE)
    \/ \E d \in CommitFailData : submission_callback(EXECUTION_API_KEY, d, TRUE)

Spec == Init /\ [][Next]_vars

\* ---- callbacks delivered one after the other -----------------------------
\* The database when the executor's callbacks start to arrive: student 1 has
\* submitted twice and both submissions were dispatched; the student is
\* still assigned, or has been unassigned since.
InitDelivery ==
    /\ code_submissions =
          <<CodeSubmission(1, "python"), CodeSubmission(1, "python")>>
    /\ \E sel \in SUBSET {1} :
          problem_assignments = [u \in sel |-> ProblemAssignment]
    /\ coding_problem = [is_open |-> TRUE, scoring_type |-> "EQUAL",
                         total_score |-> DefaultTotalScore]
    /\ test_case_score = 0
    /\ inflight = {}
    /\ lambda_jobs = {payload(sid, coding_problem, test_case_score) : sid \in {1, 2}}
    /\ best_seen = [u \in Students |-> 0]
    /\ resp = Response("init", "none", NoReq)
    /\ callback_sessions = [h \in Handlers |-> Idle]
    /\ delivered = <<>>

\* One delivery: the handler of lines 502-540 runs on the body, and the
\* history keeps the body, the answer, and the two tables as they were
\* before.
deliver_callback(data) ==
    /\ Len(delivered) < MaxDeliveries
    /\ handle_callback(EXECUTION_API_KEY, data, FALSE)
    /\ delivered' = Append(delivered,
                           [data |-> data, result |-> resp'.result,
                            subs |-> code_submissions,
                            asg |-> problem_assignments])
    /\ UNCHANGED callback_sessions

NextDelivery == \E d \in CallbackData : deliver_callback(d)

SpecDelivery == InitDelivery /\ [][NextDelivery]_vars

\* ---- two callbacks handled at the same time ------------------------------
\* Nothing in the handler locks the rows it reads (routes.py:514, 525), so
\* between the reads of one request and its commit (routes.py:533) another
\* request can read and commit: here the handler is two steps.
\* The submission that the callback of handler h names.
RaceSubmission(h) == h + 1

\* The bodies the executor sends for the submission of handler h.
RaceData(h) ==
    [submission_id : {RaceSubmission(h)}, status : {"Passed"},
     score_achieved : 0 .. MaxRaceScore, total_score : {DefaultTotalScore},
     output : {Output}]

\* Student 1 is assigned and has three submissions: submission 1 has been
\* graded by a callback (a body of RaceData(0), which names submission 1),
\* submissions 2 and 3 are with the executor.
InitRace ==
    /\ \E d \in RaceData(0) :
          LET r == callback_body(
                      <<CodeSubmission(1, "python"), CodeSubmission(1, "python"),
                        CodeSubmission(1, "python")>>,
                      [u \in {1} |-> ProblemAssignment], d, FALSE)
          IN  /\ code_submissions = r.subs
              /\ problem_assignments = r.asg
    /\ coding_problem = [is_open |-> TRUE, scoring_type |-> "EQUAL",
                         total_score |-> DefaultTotalScore]
    /\ test_case_score = 0
    /\ inflight = {}
    /\ lambda_jobs = {payload(sid, coding_problem, test_case_score) :
                         sid \in DOMAIN code_submissions}
    /\ best_seen = highest([u \in Students |-> 0], problem_assignments)
    /\ resp = Response("init", "none", NoReq)
    /\ callback_sessions = [h \in Handlers |-> Idle]
    /\ delivered = <<>>

\* Lines 510-531: handler h loads the submission and the assignment as they
\* are committed and makes its writes in its own session.  overlap records
\* that another handler had read and not yet committed.
callback_read(h, data) ==
    /\ callback_sessions[h] = Idle
    /\ LET s0 == Session(code_submissions, problem_assignments)
       IN  callback_sessions' =
              [callback_sessions EXCEPT ![h] =
                  [phase |-> "read", data |-> data, read |-> s0,
                   written |-> callback_writes(s0, data),
                   overlap |-> \E g \in Handlers \ {h} :
                                  callback_sessions[g].phase = "read"]]
    /\ UNCHANGED <<code_submissions, problem_assignments, coding_problem,
                   test_case_score, inflight, lambda_jobs, best_seen, resp,
                   delivered>>

\* Line 533: the commit writes the columns the session has changed: the
\* submission's, and the assignment's when the handler replaced the best
\* score it had read.
flush(subs, asg, c) ==
    LET sid == c.data.submission_id
        user == c.written.subs[sid].user_id
    IN  [subs |-> [subs EXCEPT ![sid] = c.written.subs[sid]],
         asg |-> IF c.written.asg # c.read.asg
                 THEN [asg EXCEPT ![user] = c.written.asg[user]]
                 ELSE asg,
         result |-> "200"]

\* Lines 533-540: handler h commits, or rolls back when it has raised.
callback_commit(h) ==
    /\ callback_sessions[h].phase = "read"
    /\ LET c == callback_sessions[h]
           r == IF c.written.raised
                THEN rollback(code_submissions, problem_assignments, c.written)
                ELSE flush(code_submissions, problem_assignments, c)
       IN  /\ code_submissions' = r.subs
           /\ problem_assignments' = r.asg
           /\ best_seen' = highest(best_seen, r.asg)
           /\ resp' = Response("submission_callback", r.result,
                                [key |-> EXECUTION_API_KEY,
                                 body |-> logged(c.data, r.result)])
           /\ callback_sessions' =
                  [callback_sessions EXCEPT ![h] = [c EXCEPT !.phase = "done"]]
    /\ UNCHANGED <<coding_problem, test_case_score, inflight, lambda_jobs,
                   delivered>>

NextRace ==
    \/ \E h \in Handlers : \E d \in RaceData(h) : callback_read(h, d)
    \/ \E h \in Handlers : callback_commit(h)

SpecRace == InitRace /\ [][NextRace]_vars

\* ---- what the claims speak of --------------------------------------------
IsCallback(r) == r.op = "submission_callback"

\* The key a callback presented is absent, or is not the configured key.
BadKey(key) == key = NoHeader \/ key # EXECUTION_API_KEY

SubmissionsOf(subs, user) == {i \in DOMAIN subs : subs[i].user_id = user}

Max(S) == CHOOSE m \in S : \A x \in S : x <= m

Terminal == {"Passed", "Failed", "Error"}
StatusEnum == {"Pending", "Running", "Passed", "Failed", "Error"}

\* C1: a callback whose key is absent or is not the configured key is
\* answered 403, and the step changes no Submission and no Assignment row.
C1_BadKeyForbidden ==
    [][(IsCallback(resp') /\ BadKey(resp'.req.key))
          => /\ resp'.result = "403"
             /\ UNCHANGED <<code_submissions, problem_assignments>>]_vars

\* C1 witness: a callback with a wrong key was answered 403 while a
\* Pending submission and an assignment existed.
C1_Witness ==
    /\ resp = Response("submission_callback", "403",
                       [key |-> "wrong", body |-> NoReq])
    /\ code_submissions # <<>>
    /\ code_submissions[1].status = "Pending"
    /\ 1 \in DOMAIN problem_assignments

\* C2: an authenticated callback naming a submission id that no row has is
\* answered 404, and the step changes no Submission and no Assignment row.
C2_UnknownIdNotFound ==
    [][(/\ IsCallback(resp')
        /\ ~BadKey(resp'.req.key)
        /\ resp'.req.body.submission_id # Missing
        /\ resp'.req.body.submission_id \notin DOMAIN code_submissions)
          => /\ resp'.result = "404"
             /\ UNCHANGED <<code_submissions, problem_assignments>>]_vars

\* C2 witness: a callback for id 2 was answered 404 while only submission 1
\* existed.
C2_Witness ==
    /\ resp = Response("submission_callback", "404",
                       [key |-> EXECUTION_API_KEY, body |-> [submission_id |-> 2]])
    /\ Len(code_submissions) = 1
    /\ 1 \in DOMAIN problem_assignments

\* C3: when an authenticated callback for submission s is applied and the
\* (student, problem) pair of s has an Assignment with cached best_score b,
\* then a reported score above b becomes the best_score with best_submission
\* referencing s, and a reported score of at most b leaves both unchanged.
C3_BestScoreUpdate ==
    [][(IsCallback(resp') /\ resp'.result = "200")
          => LET d == resp'.req.body
                 s == d.submission_id
                 u == code_submissions[s].user_id
             IN  u \in DOMAIN problem_assignments
                    => problem_assignments'[u] =
                          IF d.score_achieved > problem_assignments[u].best_score
                          THEN [best_score |-> d.score_achieved,
                                best_submission_id |-> s]
                          ELSE problem_assignments[u]]_vars

\* C3 witness: a callback for submission 2 reported a score not above the
\* best score, which an earlier callback for submission 1 of the same pair
\* had raised; the best submission is still submission 1.
C3_Witness ==
    /\ IsCallback(resp) /\ resp.result = "200"
    /\ resp.req.body.submission_id = 2
    /\ code_submissions[1].user_id = code_submissions[2].user_id
    /\ code_submissions[1].user_id \in DOMAIN problem_assignments
    /\ LET a == problem_assignments[code_submissions[1].user_id]
       IN  /\ a.best_submission_id = 1
           /\ a.best_score = MaxScore
           /\ resp.req.body.score_achieved <= a.best_score

\* C4 (the claim as stated): every Assignment's best_score is the maximum
\* score_achieved over the submissions of its (student, problem) pair.
C4_BestIsMaximum ==
    \A u \in DOMAIN problem_assignments :
        LET mine == SubmissionsOf(code_submissions, u)
        IN  mine # {} =>
               problem_assignments[u].best_score =
                  Max({code_submissions[i].score_achieved : i \in mine})

\* C5 (the claim as stated): a pair's cached best_score is never lower than
\* it has been, across callbacks, submissions and assignment updates.
C5_BestNeverLower ==
    \A u \in DOMAIN problem_assignments :
        problem_assignments[u].best_score >= best_seen[u]

\* C6 (the claim as stated): a submission is created Pending, and once its
\* status is terminal no later step changes its status or its score.
C6_TerminalIsFinal ==
    [][/\ \A i \in DOMAIN code_submissions :
             code_submissions[i].status \in Terminal
                => /\ code_submissions'[i].status = code_submissions[i].status
                   /\ code_submissions'[i].score_achieved =
                         code_submissions[i].score_achieved
       /\ \A i \in DOMAIN code_submissions' \ DOMAIN code_submissions :
             code_submissions'[i].status = "Pending"]_vars

\* C7 (the claim as stated): every submission's status is one of Pending,
\* Running, Passed, Failed, Error.
C7_StatusInEnum ==
    \A i \in DOMAIN code_submissions : code_submissions[i].status \in StatusEnum

\* C8: a view_problem request by a student the problem is not assigned to,
\* or for a problem that is not open, or naming a language the form does not
\* offer, is not accepted: the step adds no Submission row, changes none,
\* and hands nothing to the executor.
C8_RejectedAttempt ==
    [][(/\ resp'.op = "view_problem"
        /\ resp'.result \notin {"dispatched", "dispatch_failed"}
        /\ \/ resp'.req.user \notin DOMAIN problem_assignments
           \/ ~coding_problem.is_open
           \/ resp'.req.language \notin {"python"})
          => /\ resp'.result \in {"not_assigned", "closed", "form"}
             /\ UNCHANGED <<code_submissions, inflight, lambda_jobs>>]_vars

\* C8 witness: an attempt on a closed problem was rejected while an earlier
\* submission of the student existed.
C8_Witness ==
    /\ resp = Response("view_problem", "closed",
                       [user |-> 1, language |-> "python"])
    /\ Len(code_submissions) = 1
    /\ 1 \in DOMAIN problem_assignments

\* C9 (the claim as stated): when the dispatch of submission s fails, s is
\* left in Error status with a non-empty message, and no reader has been
\* shown s in Pending status.
C9_NeverSeenPending ==
    [][\A s \in DOMAIN code_submissions :
          resp' = Response("view_problem", "dispatch_failed", [sid |-> s])
             => /\ code_submissions'[s].status = "Error"
                /\ code_submissions'[s].execution_output \notin {"", NoneStr}
                /\ resp # Response("view_submission", "200",
                                   [sid |-> s, status |-> "Pending"])]_vars

\* C9 (amended): an accepted attempt adds exactly one row, in Pending
\* status; when its dispatch fails, the handler's second commit adds no row
\* and leaves that row in Error status with a non-empty message, every other
\* row as it was.
C9_ErrorAfterSecondCommit ==
    [][/\ (resp'.op = "view_problem" /\ resp'.result = "committed")
             => /\ Len(code_submissions') = Len(code_submissions) + 1
                /\ code_submissions'[Len(code_submissions')].status = "Pending"
       /\ \A s \in DOMAIN code_submissions :
             resp' = Response("view_problem", "dispatch_failed", [sid |-> s])
                => /\ code_submissions'[s].status = "Error"
                   /\ code_submissions'[s].execution_output \notin {"", NoneStr}
                   /\ DOMAIN code_submissions' = DOMAIN code_submissions
                   /\ \A i \in DOMAIN code_submissions \ {s} :
                         code_submissions'[i] = code_submissions[i]]_vars

\* C9 witness: the dispatch of submission 1 failed, and the row is in Error
\* status with the diagnostic message.
C9_Witness ==
    /\ resp = Response("view_problem", "dispatch_failed", [sid |-> 1])
    /\ code_submissions[1].status = "Error"
    /\ code_submissions[1].execution_output = Diagnostic

\* The four columns of row s hold what the body d carried.
Written(row, d) ==
    /\ row.status = d.status
    /\ row.score_achieved = d.score_achieved
    /\ row.total_score = d.total_score
    /\ row.execution_output = d.output

\* C10: an authenticated callback either is answered 200, and then all four
\* columns of its submission hold the body's values and the Assignment is
\* changed only to that submission and its score; or it is answered with an
\* error, and then no Submission and no Assignment row has changed.
C10_CallbackAtomic ==
    [][(IsCallback(resp') /\ ~BadKey(resp'.req.key))
          => \/ /\ resp'.result = "200"
                /\ LET d == resp'.req.body
                       s == d.submission_id
                   IN  /\ Written(code_submissions'[s], d)
                       /\ \A i \in DOMAIN code_submissions \ {s} :
                             code_submissions'[i] = code_submissions[i]
                       /\ \A u \in DOMAIN problem_assignments :
                             \/ problem_assignments'[u] = problem_assignments[u]
                             \/ problem_assignments'[u] =
                                   [best_score |-> d.score_achieved,
                                    best_submission_id |-> s]
             \/ /\ resp'.result \in {"404", "500"}
                /\ UNCHANGED <<code_submissions, problem_assignments>>]_vars

\* C10 witness: a callback for the existing submission 1 was answered 500,
\* and submission 1 is still as it was created.
C10_Witness ==
    /\ IsCallback(resp) /\ resp.result = "500"
    /\ resp.req.body.submission_id = 1
    /\ Len(code_submissions) >= 1
    /\ code_submissions[1] = CodeSubmission(1, "python")

\* Whether the requester is the student who owns the submission, or the
\* instructor who created its problem.
OwnerOrCreator(user, sub) == user = sub.user_id \/ user = Creator

IsPoll(r) == r.op = "get_submission_status" /\ r.result # "404"

\* C11: a status poll of an existing submission by a requester who is
\* neither its owning student nor the instructor who created its problem is
\* answered 403, and no poll, whatever its answer, changes a Submission or
\* an Assignment row.
C11_PollForbiddenPureRead ==
    [][resp'.op = "get_submission_status"
          => /\ UNCHANGED <<code_submissions, problem_assignments>>
             /\ (/\ IsPoll(resp')
                 /\ ~OwnerOrCreator(resp'.req.user,
                                    code_submissions[resp'.req.sid]))
                   => resp'.result = "403"]_vars

\* C11 witness: student 2 polled submission 1 of student 1, after it was
\* graded, and was answered 403.
C11_Witness ==
    /\ resp = Response("get_submission_status", "403", [user |-> 2, sid |-> 1])
    /\ code_submissions[1].user_id = 1
    /\ code_submissions[1].status = "Passed"

\* C12 (the claim as stated): after an accepted submission was given
\* status Passed and the full score by an authenticated callback, a status
\* poll by the owning student is answered with status Passed and that score.
C12_PollReturnsResult ==
    [][(/\ IsPoll(resp')
        /\ resp'.req.user = code_submissions[resp'.req.sid].user_id
        /\ code_submissions[resp'.req.sid].status = "Passed"
        /\ code_submissions[resp'.req.sid].score_achieved = MaxScore
        /\ code_submissions[resp'.req.sid].total_score = DefaultTotalScore)
          => /\ resp'.result = "200"
             /\ resp'.req.status = "Passed"
             /\ resp'.req.score = MaxScore]_vars

\* C15: in every state, an authenticated well-formed callback for an
\* existing submission whose (student, problem) pair has no Assignment row
\* is answered 200, commits the body's status, scores and output to that
\* submission, changes no other submission, and creates or changes no
\* Assignment row.
C15_NoAssignmentStillSaved ==
    \A d \in WellFormed :
        (/\ d.submission_id \in DOMAIN code_submissions
         /\ ~get_assignment(problem_assignments,
                            code_submissions[d.submission_id].user_id))
          => LET r == callback_body(code_submissions, problem_assignments,
                                    d, FALSE)
             IN  /\ r.result = "200"
                 /\ Written(r.subs[d.submission_id], d)
                 /\ \A i \in DOMAIN code_submissions \ {d.submission_id} :
                       r.subs[i] = code_submissions[i]
                 /\ r.asg = problem_assignments

\* C15 witness: the callback for submission 1 was applied after its student
\* had been unassigned; the row holds the body's values and the student
\* still has no Assignment row.
C15_Witness ==
    /\ IsCallback(resp) /\ resp.result = "200"
    /\ resp.req.body.submission_id = 1
    /\ resp.req.body.score_achieved = MaxScore
    /\ Written(code_submissions[1], resp.req.body)
    /\ ~get_assignment(problem_assignments, code_submissions[1].user_id)

\* The payloads the executor was invoked with for submission sid.
JobsFor(jobs, sid) == {j \in jobs : j.submission_id = sid}

\* C16: the commit of an accepted attempt adds the row in Pending status
\* and with its id while the executor has not been invoked for it; the
\* executor is invoked only by the dispatch of a row that exists, with a
\* payload naming that row's id, and once per row; so every payload the
\* executor holds names an existing row.
C16_RowBeforeInvoke ==
    [][/\ (resp'.op = "view_problem" /\ resp'.result = "committed")
             => /\ Len(code_submissions') = Len(code_submissions) + 1
                /\ code_submissions'[Len(code_submissions')].status = "Pending"
                /\ Len(code_submissions') \in inflight'
                /\ lambda_jobs' = lambda_jobs
                /\ JobsFor(lambda_jobs, Len(code_submissions')) = {}
       /\ (resp'.op = "view_problem" /\ resp'.result = "dispatch_failed")
             => lambda_jobs' = lambda_jobs
       /\ (resp'.op = "view_problem" /\ resp'.result = "dispatched")
             => /\ resp'.req.sid \in DOMAIN code_submissions
                /\ JobsFor(lambda_jobs, resp'.req.sid) = {}
                /\ Cardinality(JobsFor(lambda_jobs', resp'.req.sid)) = 1
                /\ lambda_jobs' \ lambda_jobs = JobsFor(lambda_jobs', resp'.req.sid)
                /\ resp'.req.sid \notin inflight'
       /\ lambda_jobs' # lambda_jobs
             => (resp'.op = "view_problem" /\ resp'.result = "dispatched")
       /\ \A j \in lambda_jobs' :
             j.submission_id \in DOMAIN code_submissions']_vars

\* C16 witness: both submissions were dispatched, and the executor holds
\* one payload for each of the two rows.
C16_Witness ==
    /\ resp = Response("view_problem", "dispatched", [sid |-> 2])
    /\ Cardinality(JobsFor(lambda_jobs, 1)) = 1
    /\ Cardinality(JobsFor(lambda_jobs, 2)) = 1
    /\ Len(code_submissions) = 2

\* C17 (the claim as stated): no step of a submission attempt changes the
\* stored score of the problem's test case or the problem's total_score.
C17_SubmitKeepsProblem ==
    [][resp'.op = "view_problem"
          => UNCHANGED <<test_case_score, coding_problem>>]_vars

\* C18 (the claim as stated): whenever an Assignment's best_submission is
\* set, it references a submission of the same student, and the
\* Assignment's best_score is that submission's current score_achieved.
C18_BestSubmissionConsistent ==
    \A u \in DOMAIN problem_assignments :
        LET a == problem_assignments[u]
        IN  a.best_submission_id # None
              => /\ a.best_submission_id \in DOMAIN code_submissions
                 /\ code_submissions[a.best_submission_id].user_id = u
                 /\ a.best_score =
                       code_submissions[a.best_submission_id].score_achieved

\* The last two deliveries.
Last == delivered[Len(delivered)]
Previous == delivered[Len(delivered) - 1]

\* C14 (the claim as stated): when two callbacks for two different
\* submission ids have been applied one after the other, the Submission rows
\* and the Assignment rows are what they would be had the same two callbacks
\* been applied in the other order.
C14_OrderIrrelevant ==
    (/\ Len(delivered) >= 2
     /\ Previous.result = "200" /\ Last.result = "200"
     /\ Previous.data.submission_id # Last.data.submission_id)
      => LET r1 == callback_body(Previous.subs, Previous.asg, Last.data, FALSE)
             r2 == callback_body(r1.subs, r1.asg, Previous.data, FALSE)
         IN  /\ code_submissions = r2.subs
             /\ problem_assignments = r2.asg

\* C19: when the same body has been delivered twice in a row, the
\* Submission rows and the Assignment rows after the second delivery are
\* what they were after the first.
C19_RedeliveryIdempotent ==
    (Len(delivered) >= 2 /\ Previous.data = Last.data)
      => /\ code_submissions = Last.subs
         /\ problem_assignments = Last.asg

\* C19 witness: the same body was delivered twice and applied both times;
\* the first delivery raised the best score, the second found it raised.
C19_Witness ==
    /\ Len(delivered) >= 2
    /\ Previous.data = Last.data
    /\ Previous.result = "200" /\ Last.result = "200"
    /\ Previous.asg = [u \in {1} |-> ProblemAssignment]
    /\ problem_assignments[1] =
          [best_score |-> MaxScore,
           best_submission_id |-> Last.data.submission_id]

\* Every handler has committed; none read while another was between its
\* reads and its commit.
AllDone == \A h \in Handlers : callback_sessions[h].phase = "done"
Serialized == \A h \in Handlers : ~callback_sessions[h].overlap

\* The scores the two concurrent callbacks reported.
Reported == {callback_sessions[h].data.score_achieved : h \in Handlers}

\* C13: when the two callback handlers for two submissions of the same
\* (student, problem) pair have run one after the other, the Assignment's
\* best_score is the maximum of the old best score and the two reported
\* scores.  (That a best_score below the larger reported score is reached
\* when they overlap is the witness.)
C13_SerializedKeepsMax ==
    (AllDone /\ Serialized)
      => problem_assignments[1].best_score =
            Max({code_submissions[1].score_achieved} \cup Reported)

\* C13 witness: both handlers read the best score before either committed,
\* both have committed, and the best_score is lower than the larger of the
\* two reported scores.
C13_Witness ==
    /\ AllDone /\ ~Serialized
    /\ problem_assignments[1].best_score < Max(Reported)
====
